---- MODULE Spec2Model ----
(***************************************************************************)
(* Model of the Go package isbn (src/isbn.go).  A text is a sequence of    *)
(* Unicode code points, as Go ranges over a string; the internal digit     *)
(* values are the int32 entries 0..10 the package computes with.  The      *)
(* package has no state of its own: the state of the model is the text a   *)
(* caller passes in, the call it makes and what the call returns.          *)
(***************************************************************************)
EXTENDS Integers, Sequences, FiniteSets, TLC

\* ------------------------------------------------------------------ bounds
\* number of edits (substitutions, hyphen insertions/removals) applied to a
\* seed text before it is passed to the package
MaxEdits == 1

\* ------------------------------------------------------- program constants
integerRuneStart == 48

urnPrefix == <<117, 114, 110, 58, 105, 115, 98, 110, 58>>   \* "urn:isbn:"

isbn10Prefix13 == <<9, 7, 8>>      \* "\x09\x07\x08"

gs1Alt == <<9, 7, 9>>         \* "\x09\x07\x09"

\* --------------------------------------------------------- Go string model
\* number of bytes of the UTF-8 encoding of one code point
Utf8Len(r) == IF r < 128 THEN 1 ELSE IF r < 2048 THEN 2 ELSE IF r < 65536 THEN 3 ELSE 4

RECURSIVE ByteLen(_)
\* len(s) of a Go string: the number of bytes, not of characters
ByteLen(s) == IF s = <<>> THEN 0 ELSE Utf8Len(Head(s)) + ByteLen(Tail(s))

HasPrefix(s, p) == Len(s) >= Len(p) /\ SubSeq(s, 1, Len(p)) = p

\* strings.TrimPrefix: removes one leading occurrence of p
TrimPrefix(s, p) == IF HasPrefix(s, p) THEN SubSeq(s, Len(p) + 1, Len(s)) ELSE s

\* ----------------------------------------------------------------- isbn.go
\* sanitizeRune returning 0 instead of -1 for a character it should drop
sanitizeRuneKeepsOthers(r) ==
    IF r >= 48 /\ r <= 57 THEN r - integerRuneStart
    ELSE IF r = 88 \/ r = 120 THEN 10
    ELSE 0

sanitizeRune(r) ==
    IF r >= 48 /\ r <= 57 THEN r - integerRuneStart
    ELSE IF r = 88 \/ r = 120 THEN 10
    ELSE -1

\* strings.Map(sanitizeRune, s): runes mapped to a negative value are dropped
Sanitize(s) ==
    SelectSeq([k \in 1..Len(s) |-> sanitizeRune(s[k])], LAMBDA r : r >= 0)

convertDigitsToString(i) == [k \in 1..Len(i) |-> i[k] + integerRuneStart]

RECURSIVE WeightedSum13(_, _)
\* the loop of check13 from (0-based) index idx on: weight 1 on even, 3 on odd
WeightedSum13(i, idx) ==
    IF idx >= Len(i) THEN 0
    ELSE (IF idx % 2 = 0 THEN i[idx + 1] ELSE i[idx + 1] * 3) + WeightedSum13(i, idx + 1)

check13(i) ==
    LET j == IF Len(i) = 13 THEN SubSeq(i, 1, 12) ELSE i
        check == WeightedSum13(j, 0)
    IN  (10 - (check % 10)) % 10

RECURSIVE WeightedSum10(_, _)
\* the loop of check10 from (0-based) index idx on: weight 10 - index
WeightedSum10(i, idx) ==
    IF idx >= Len(i) THEN 0
    ELSE i[idx + 1] * (10 - idx) + WeightedSum10(i, idx + 1)

\* check10 that does not discard the tenth entry
check10NoTruncate(i) == (11 - (WeightedSum10(i, 0) % 11)) % 11

check10(i) ==
    LET j == IF Len(i) = 10 THEN SubSeq(i, 1, 9) ELSE i
        check == WeightedSum10(j, 0)
    IN  (11 - (check % 11)) % 11

\* a (parsed, error) pair; the zero parsed{} has a nil body
Parsed(body, err) == [body |-> body, err |-> err]

parse10(s) ==
    IF check10(s) # s[Len(s)]
    THEN Parsed(<<>>, "isbn: invalid isbn-10 checksum")
    ELSE Parsed(<<9, 7, 8>> \o s, "nil")

parseSbn(s) == parse10(<<0>> \o s)

\* parse13 that checks the prefix but not the check digit
parse13NoChecksum(s) ==
    IF SubSeq(s, 1, 3) # isbn10Prefix13 /\ SubSeq(s, 1, 3) # gs1Alt
    THEN Parsed(<<>>, "isbn: invalid isbn-13 gs1")
    ELSE Parsed(s, "nil")

parse13(s) ==
    IF SubSeq(s, 1, 3) # isbn10Prefix13 /\ SubSeq(s, 1, 3) # gs1Alt
    THEN Parsed(<<>>, "isbn: invalid isbn-13 gs1")
    ELSE IF check13(s) # s[Len(s)]
    THEN Parsed(<<>>, "isbn: invalid isbn-13 checksum")
    ELSE Parsed(s, "nil")

\* parse whose length limit forgets the four hyphens
parseLimit13(s0) ==
    LET s == TrimPrefix(s0, urnPrefix)
        runes == Sanitize(s)
    IN  IF ByteLen(s) > 13 THEN Parsed(<<>>, "isbn: parse error: too long")
        ELSE IF Len(runes) = 9 THEN parseSbn(runes)
        ELSE IF Len(runes) = 10 THEN parse10(runes)
        ELSE IF Len(runes) = 13 THEN parse13(runes)
        ELSE Parsed(<<>>, "isbn: parse: invalid length")

parse(s0) ==
    LET s == TrimPrefix(s0, urnPrefix)
        runes == Sanitize(s)
    IN  IF ByteLen(s) > 13 + 4 THEN Parsed(<<>>, "isbn: parse error: too long")
        ELSE IF Len(runes) = 9 THEN parseSbn(runes)
        ELSE IF Len(runes) = 10 THEN parse10(runes)
        ELSE IF Len(runes) = 13 THEN parse13(runes)
        ELSE Parsed(<<>>, "isbn: parse: invalid length")

\* fmt.Sprintf("%s%c", body, check): the rune check itself is appended
isbn13(p) == convertDigitsToString(p.body) \o <<check13(p.body)>>

isbn10(p) == convertDigitsToString(SubSeq(p.body, 4, Len(p.body))) \o <<check13(p.body)>>

\* a (string, error) pair
Returned(str, err) == [s |-> str, err |-> err]

\* SBN that tests the entry after the registration-group digit
SBNWrongGroupIndex(s) ==
    LET p == parse(s)
    IN  IF p.err # "nil" THEN Returned(<<>>, p.err)
        ELSE IF SubSeq(p.body, 5, 5) # <<0>> THEN Returned(<<>>, "isbn: sbn: group is not 0")
        ELSE Returned(convertDigitsToString(SubSeq(p.body, 5, Len(p.body)))
                          \o <<check13(p.body)>>, "nil")

SBN(s) ==
    LET p == parse(s)
    IN  IF p.err # "nil" THEN Returned(<<>>, p.err)
        ELSE IF SubSeq(p.body, 4, 4) # <<0>> THEN Returned(<<>>, "isbn: sbn: group is not 0")
        ELSE Returned(convertDigitsToString(SubSeq(p.body, 5, Len(p.body)))
                          \o <<check13(p.body)>>, "nil")

ISBN10(s) ==
    LET p == parse(s)
    IN  IF p.err # "nil" THEN Returned(<<>>, p.err)
        ELSE IF SubSeq(p.body, 1, 3) # isbn10Prefix13
        THEN Returned(<<>>, "isbn: isbn-10: gs1 is not 978")
        ELSE Returned(isbn10(p), "nil")

ISBN13(s) ==
    LET p == parse(s)
    IN  IF p.err # "nil" THEN Returned(<<>>, p.err)
        ELSE Returned(isbn13(p), "nil")

\* ------------------------------------------------------------ input texts
\* notation for texts: an entry 0..9 stands for that digit character, any
\* other entry is the code point itself (45 '-', 88 'X', 79 'O', 58 ':')
Txt(seq) == [k \in 1..Len(seq) |-> IF seq[k] \in 0..9 THEN seq[k] + 48 ELSE seq[k]]

\* the inputs of the package's tests
TestTexts ==
    { Txt(<<0,6,7,2,3,2,3,5,6,7>>),                           \* "0672323567"
      Txt(<<1,45,3,1,6,45,8,7,3,7,1,45,4>>),                  \* "1-316-87371-4"
      urnPrefix \o Txt(<<0,7,8,9,7,0,2,3,6,3>>),              \* "urn:isbn:0789702363"
      Txt(<<0,5,9,6,1,0,1,8,3,88>>),                          \* "059610183X"
      Txt(<<0,5,9,6,1,0,1,8,3,1,0>>),                         \* "05961018310"
      Txt(<<0,6,7,2,3,2,3,5,6>>),                             \* "067232356"
      Txt(<<0,6,7,2,3,2,3,5,7>>),                             \* "067232357"
      Txt(<<9,7,8,1,2,5,0,2,8,9,5,5,1>>),                     \* "9781250289551"
      Txt(<<9,7,8,45,1,45,6,4,9,3,7,45,4,0,4,45,2>>),         \* "978-1-64937-404-2"
      urnPrefix \o Txt(<<9,7,8,0,5,9,3,4,2,2,9,4,6>>),        \* "urn:isbn:9780593422946"
      Txt(<<9,7,8,0,5,9,3,4,9,2,9,1,8,9>>),                   \* "97805934929189"
      Txt(<<9,7,8,0,5,9,3,4,9,2,9,1>>),                       \* "978059349291"
      Txt(<<9,7,8,0,5,9,3,4,9,2,9,1,0>>),                     \* "9780593492910"
      Txt(<<9,7,8,79,5,9,3,2,3,6,5,9,8>>),                    \* "978O593236598"
      Txt(<<0,3,0,6,4,0,6,1,5>>),                             \* check10 test data
      Txt(<<9,7,8,0,3,0,6,4,0,6,1,5>>) }                      \* check13 test data

\* further inputs: an SBN, a 979 identifier, and 'X' away from the last place
MoreTexts ==
    { Txt(<<6,7,2,3,2,3,5,6,7>>),                             \* "672323567"
      Txt(<<9,7,9,1,0,9,0,6,3,6,0,7,1>>),                     \* "9791090636071"
      Txt(<<88,0,0,0,0,0,0,0,0,88>>),                         \* "X00000000X"
      Txt(<<9,7,8,88,0,0,0,0,0,0,0,0,2>>) }                   \* "978X000000002"

Seeds == TestTexts \cup MoreTexts

\* characters a substitution may write: '5', 'x', and the en dash U+2013,
\* which UTF-8 encodes in three bytes
EditChars == {53, 120, 8211}

\* ------------------------------------------------------------------ state
VARIABLES
    x,      \* the text the caller started from
    y,      \* the text passed to the package: x, a hyphen variant of x, or
            \* a string the package returned for x
    how,    \* how y was obtained from x: "base", "hyphen", "fed10", "fed13"
    edits,  \* number of edits made so far
    fn,     \* the function called last on y ("none" before any call)
    ret,    \* what that call returned
    ref     \* what parse and ISBN13 returned for x, once they were called

vars == <<x, y, how, edits, fn, ret, ref>>

\* what a call leaves behind: the returned string s and error err, and the
\* values of its locals: the parse error perr, the digit values body and the
\* check digit check
NoRes == [s |-> <<>>, err |-> "not called", perr |-> "not called", body |-> <<>>, check |-> -1]

Res(str, err, perr, body, check) ==
    [s |-> str, err |-> err, perr |-> perr, body |-> body, check |-> check]

Init ==
    /\ x \in Seeds
    /\ y = x
    /\ how = "base"
    /\ edits = 0
    /\ fn = "none"
    /\ ret = NoRes
    /\ ref = [p |-> NoRes, c |-> NoRes]

\* ---------------------------------------------------- choosing the input
Fresh == how = "base" /\ fn = "none" /\ ref = [p |-> NoRes, c |-> NoRes]

\* the caller passes a text that differs from a seed in one character
Substitute(k, c) ==
    /\ Fresh
    /\ edits < MaxEdits
    /\ k \in 1..Len(x)
    /\ x[k] # c
    /\ x' = [x EXCEPT ![k] = c]
    /\ y' = x'
    /\ edits' = edits + 1
    /\ UNCHANGED <<how, fn, ret, ref>>

\* the caller passes x with one more hyphen, before position k
InsertHyphen(k) ==
    /\ how \in {"base", "hyphen"}
    /\ edits < MaxEdits
    /\ k \in 1..(Len(y) + 1)
    /\ y' = SubSeq(y, 1, k - 1) \o <<45>> \o SubSeq(y, k, Len(y))
    /\ how' = "hyphen"
    /\ edits' = edits + 1
    /\ fn' = "none"
    /\ ret' = NoRes
    /\ UNCHANGED <<x, ref>>

\* the caller passes x with the hyphen at position k removed
RemoveHyphen(k) ==
    /\ how \in {"base", "hyphen"}
    /\ edits < MaxEdits
    /\ k \in 1..Len(y)
    /\ y[k] = 45
    /\ y' = SubSeq(y, 1, k - 1) \o SubSeq(y, k + 1, Len(y))
    /\ how' = "hyphen"
    /\ edits' = edits + 1
    /\ fn' = "none"
    /\ ret' = NoRes
    /\ UNCHANGED <<x, ref>>

\* the caller passes the string the last ISBN10 or ISBN13 call returned
Feed ==
    /\ how = "base"
    /\ fn \in {"ISBN10", "ISBN13"}
    /\ ret.err = "nil"
    /\ y' = ret.s
    /\ how' = IF fn = "ISBN10" THEN "fed10" ELSE "fed13"
    /\ fn' = "none"
    /\ ret' = NoRes
    /\ UNCHANGED <<x, edits, ref>>

\* ------------------------------------------------------------- the calls
CallParse ==
    /\ fn # "parse"
    /\ fn' = "parse"
    /\ ret' = LET p == parse(y) IN Res(<<>>, p.err, p.err, p.body, -1)
    /\ ref' = IF how = "base" THEN [ref EXCEPT !.p = ret'] ELSE ref
    /\ UNCHANGED <<x, y, how, edits>>

CallISBN13 ==
    /\ fn # "ISBN13"
    /\ fn' = "ISBN13"
    /\ ret' = LET p == parse(y)
                  r == ISBN13(y)
              IN  Res(r.s, r.err, p.err, p.body, -1)
    /\ ref' = IF how = "base" THEN [ref EXCEPT !.c = ret'] ELSE ref
    /\ UNCHANGED <<x, y, how, edits>>

CallISBN10 ==
    /\ fn # "ISBN10"
    /\ fn' = "ISBN10"
    /\ ret' = LET p == parse(y)
                  r == ISBN10(y)
              IN  Res(r.s, r.err, p.err, p.body, -1)
    /\ UNCHANGED <<x, y, how, edits, ref>>

CallSBN ==
    /\ fn # "SBN"
    /\ fn' = "SBN"
    /\ ret' = LET p == parse(y)
                  r == SBN(y)
              IN  Res(r.s, r.err, p.err, p.body, -1)
    /\ UNCHANGED <<x, y, how, edits, ref>>

\* check10 called with the digit values of y, as parse10 and the tests do
CallCheck10 ==
    /\ fn # "check10"
    /\ Len(Sanitize(y)) \in {9, 10}
    /\ fn' = "check10"
    /\ ret' = Res(<<>>, "nil", "not called", Sanitize(y), check10(Sanitize(y)))
    /\ UNCHANGED <<x, y, how, edits, ref>>

\* check13 called with the digit values of y, as parse13 and the tests do
CallCheck13 ==
    /\ fn # "check13"
    /\ Len(Sanitize(y)) \in {12, 13}
    /\ fn' = "check13"
    /\ ret' = Res(<<>>, "nil", "not called", Sanitize(y), check13(Sanitize(y)))
    /\ UNCHANGED <<x, y, how, edits, ref>>

Next ==
    \/ \E k \in 1..22, c \in EditChars : Substitute(k, c)
    \/ \E k \in 1..23 : InsertHyphen(k)
    \/ \E k \in 1..23 : RemoveHyphen(k)
    \/ Feed
    \/ CallParse
    \/ CallISBN13
    \/ CallISBN10
    \/ CallSBN
    \/ CallCheck10
    \/ CallCheck13

Spec == Init /\ [][Next]_vars

\* ================================================================ claims
DigitChars == 48..57

\* the text of the digit values d, one decimal digit character per entry
DigitText(d) == [k \in 1..Len(d) |-> 48 + d[k]]

\* the sanitized sequence S of a text: after removing one leading "urn:isbn:",
\* '0'..'9' become 0..9, 'X'/'x' become 10, every other character is dropped
SOf(t) == Sanitize(TrimPrefix(t, urnPrefix))

\* ---- C1 (as stated; refuted by the code)
\* Whenever ISBN13 succeeds it returns exactly 13 decimal digit characters:
\* the first 12 entries of the parsed body followed by check13 of those 12.
C1_ISBN13Canonical ==
    (fn = "ISBN13" /\ ret.err = "nil") =>
        /\ Len(ret.s) = 13
        /\ \A k \in 1..Len(ret.s) : ret.s[k] \in DigitChars
        /\ ret.s = DigitText(SubSeq(ret.body, 1, 12))
                       \o <<48 + check13(SubSeq(ret.body, 1, 12))>>

\* ---- C2 (as stated; refuted by the code)
\* For a body starting 9,7,8, ISBN10 returns exactly ten characters: the nine
\* body entries after the prefix as digits, then check10 of those nine, with
\* the value 10 written 'X'.
C2_ISBN10Recomputed ==
    (fn = "ISBN10" /\ ret.perr = "nil" /\ SubSeq(ret.body, 1, 3) = <<9, 7, 8>>) =>
        LET nine == SubSeq(ret.body, 4, 12)
            c == check10(nine)
        IN  /\ Len(ret.s) = 10
            /\ ret.s = DigitText(nine) \o <<IF c = 10 THEN 88 ELSE 48 + c>>

\* ---- C3
\* A conversion fails exactly when the text does not parse or the format is
\* impossible: on a parse error all three return that error and the empty
\* string; otherwise ISBN13 never fails, ISBN10 fails iff the body does not
\* start 9,7,8, and SBN fails iff the fourth body entry is not 0.
C3_ErrorsExactly ==
    (fn \in {"ISBN13", "ISBN10", "SBN"}) =>
        /\ ret.perr # "nil" => (ret.err = ret.perr /\ ret.s = <<>>)
        /\ ret.perr = "nil" =>
            /\ fn = "ISBN13" => ret.err = "nil"
            /\ fn = "ISBN10" => (ret.err # "nil" <=> SubSeq(ret.body, 1, 3) # <<9, 7, 8>>)
            /\ fn = "SBN" => (ret.err # "nil" <=> ret.body[4] # 0)

\* SBN was asked for an identifier that parses but whose group digit is not 0
C3_Witness ==
    fn = "SBN" /\ ret.perr = "nil" /\ ret.err # "nil" /\ ret.body[4] # 0

\* ---- C4
\* the three accepted shapes of a sanitized sequence
ShapeOk(S) ==
    \/ Len(S) = 10 /\ check10(SubSeq(S, 1, 9)) = S[10]
    \/ Len(S) = 9 /\ check10(SubSeq(<<0>> \o S, 1, 9)) = (<<0>> \o S)[10]
    \/ /\ Len(S) = 13
       /\ SubSeq(S, 1, 3) \in {<<9, 7, 8>>, <<9, 7, 9>>}
       /\ check13(SubSeq(S, 1, 12)) = S[13]

\* the body the claim gives for a sequence of an accepted shape
ShapeBody(S) ==
    IF Len(S) = 10 THEN <<9, 7, 8>> \o S
    ELSE IF Len(S) = 9 THEN <<9, 7, 8, 0>> \o S
    ELSE S

C5_RoundTrip10 ==
    (how = "fed10" /\ fn = "ISBN13") =>
        /\ ret.err = "nil"
        /\ ref.c.err = "nil" => ret.s = ref.c.s

\* ---- C6 (as stated; refuted by the code)
\* Idempotence: when x parses, the string ISBN13(x) returns parses, and ISBN13
\* of it returns the same string.
C6_Idempotent13 ==
    (how = "fed13" /\ fn = "ISBN13") =>
        /\ ret.err = "nil"
        /\ ret.s = y

\* ---- C7
\* C7 as stated: when x parses, every text obtained from x by inserting or
\* removing hyphens parses too, with the same body and canonical output.
C7_HyphensAnyNumber ==
    (how = "hyphen") =>
        /\ (fn = "parse" /\ ref.p.err = "nil") =>
               (ret.err = "nil" /\ ret.body = ref.p.body)
        /\ (fn = "ISBN13" /\ ref.c.err = "nil") =>
               (ret.err = "nil" /\ ret.s = ref.c.s)

\* C7 amended: when x parses, every text obtained from x by inserting or
\* removing hyphens whose length after removing one leading "urn:isbn:" is at
\* most 17 bytes parses too, with the same body and canonical output.
C7_HyphensWithinLimit ==
    (how = "hyphen" /\ ByteLen(TrimPrefix(y, urnPrefix)) <= 17) =>
        /\ (fn = "parse" /\ ref.p.err = "nil") =>
               (ret.err = "nil" /\ ret.body = ref.p.body)
        /\ (fn = "ISBN13" /\ ref.c.err = "nil") =>
               (ret.err = "nil" /\ ret.s = ref.c.s)

\* a hyphen variant of a text that parses was parsed, with the same body
C7_Witness ==
    /\ how = "hyphen"
    /\ y # x
    /\ fn = "parse"
    /\ ref.p.err = "nil"
    /\ ret.err = "nil"
    /\ ret.body = ref.p.body

\* ---- C8
\* C8 as stated: on every successful parse the 13th body entry is check13 of
\* the first twelve.
C8_StoredCheckAllPaths ==
    (fn = "parse" /\ ret.err = "nil") =>
        ret.body[13] = check13(SubSeq(ret.body, 1, 12))

\* C8 amended: on a successful parse of a 13-digit input the 13th body entry
\* is check13 of the first twelve; on a successful parse of an SBN or 10-digit
\* input it is the ISBN-10 check digit, check10 of body entries 4 to 12.
C8_StoredCheckByPath ==
    (fn = "parse" /\ ret.err = "nil") =>
        /\ Len(ret.body) = 13
        /\ Len(SOf(y)) = 13 => ret.body[13] = check13(SubSeq(ret.body, 1, 12))
        /\ Len(SOf(y)) \in {9, 10} => ret.body[13] = check10(SubSeq(ret.body, 4, 12))

\* a 10-digit input was parsed and its stored last entry is not check13
C8_Witness ==
    /\ fn = "parse"
    /\ ret.err = "nil"
    /\ Len(SOf(y)) = 10
    /\ ret.body[13] # check13(SubSeq(ret.body, 1, 12))

\* ---- C9 (as stated; refuted by the code)
\* On every successful parse all body entries are in 0..10, none of the first
\* twelve is 10, and a body from a 13-digit input contains no 10 at all.
C9_TenOnlyLast ==
    (fn = "parse" /\ ret.err = "nil") =>
        /\ \A k \in 1..Len(ret.body) : ret.body[k] \in 0..10
        /\ \A k \in 1..12 : ret.body[k] # 10
        /\ Len(SOf(y)) = 13 => ret.body[13] # 10

\* ---- C10
Sum10(d) ==
    10 * d[1] + 9 * d[2] + 8 * d[3] + 7 * d[4] + 6 * d[5]
        + 5 * d[6] + 4 * d[7] + 3 * d[8] + 2 * d[9]

Sum13(d) ==
    d[1] + 3 * d[2] + d[3] + 3 * d[4] + d[5] + 3 * d[6]
        + d[7] + 3 * d[8] + d[9] + 3 * d[10] + d[11] + 3 * d[12]

\* check10 of 9 or 10 entries returns c in 0..10 with the weighted sum of the
\* first 9 plus c a multiple of 11; check13 of 12 or 13 entries returns c in
\* 0..9 with the weighted sum of the first 12 plus c a multiple of 10;
\* check10([0,3,0,6,4,0,6,1,5]) = 2, check13([9,7,8,0,3,0,6,4,0,6,1,5]) = 7.
C10_ChecksumEngine ==
    /\ (fn = "check10") =>
        /\ ret.check \in 0..10
        /\ (Sum10(ret.body) + ret.check) % 11 = 0
        /\ ret.body = <<0, 3, 0, 6, 4, 0, 6, 1, 5>> => ret.check = 2
    /\ (fn = "check13") =>
        /\ ret.check \in 0..9
        /\ (Sum13(ret.body) + ret.check) % 10 = 0
        /\ ret.body = <<9, 7, 8, 0, 3, 0, 6, 4, 0, 6, 1, 5>> => ret.check = 7

\* check10 was handed ten entries, the tenth of them not 0
C10_Witness ==
    fn = "check10" /\ Len(ret.body) = 10 /\ ret.body[10] # 0

====
